---- MODULE Spec2Model ----
(***************************************************************************)
(* shpat: the Apply, Unwrappable and QuickDrop traits.                     *)
(*                                                                         *)
(* The model follows one owned value through a caller that chains apply,   *)
(* apply_keep and apply_unwrap calls on it (src/src/apply.rs) and may end  *)
(* the chain by handing the value to quick_drop (src/src/quick_drop.rs).   *)
(* A call is followed statement by statement: the move of the receiver     *)
(* into `self`, the callback, the extraction, the return, and, when a      *)
(* panic is raised, the unwinding of the frame, which drops `self`.        *)
(***************************************************************************)
EXTENDS Integers, Sequences, FiniteSets, TLC

\* ------------------------------------------------------------------ bounds
\* Largest number of elements a Vec receiver holds (push is not offered beyond it).
MaxLen == 2
\* Largest number of apply* calls in one chain.
MaxCalls == 3

\* Element / value payloads and map keys of the receivers.
Vals == {1, 2}
Keys == {1, 2}
\* The error payloads of the Result-returning callback.
ErrPayloads == {1}

\* ------------------------------------------------------------------ values
\* An owned value: a Vec, a HashMap (a set of <<key, value>> pairs, one per
\* key), or nothing (the variable was moved out of).
Nothing == [kind |-> "none", items |-> <<>>, entries |-> {}]
VecOf(s) == [kind |-> "vec", items |-> s, entries |-> {}]
MapOf(e) == [kind |-> "map", items |-> <<>>, entries |-> e]

SeqsUpTo(n) == UNION {[1..k -> Vals] : k \in 0..n}
Maps == {e \in SUBSET (Keys \X Vals) : \A p \in e, q \in e : p[1] = q[1] => p = q}
Receivers == {VecOf(s) : s \in SeqsUpTo(MaxLen)} \cup {MapOf(e) : e \in Maps}

\* Carriers and other callback by-products.
Unit == [tag |-> "Unit", val |-> 0]
Plain(x) == [tag |-> "Plain", val |-> x]
Some(x) == [tag |-> "Some", val |-> x]
None == [tag |-> "None", val |-> 0]
Ok(x) == [tag |-> "Ok", val |-> x]
Err(e) == [tag |-> "Err", val |-> e]
NoTmp == [tag |-> "unset", val |-> 0]

\* ------------------------------------------------------------------ callbacks
\* The callbacks the caller passes: |v| v.push(x), Vec::pop,
\* |v| v.pop().ok_or(e), |v| v.remove(0) (panics on an empty Vec),
\* |m| m.insert(k, x), |m| m.remove(&k).
Callbacks ==
    {[name |-> "push", k |-> 0, x |-> x] : x \in Vals}
    \cup {[name |-> "pop", k |-> 0, x |-> 0]}
    \cup {[name |-> "pop_ok_or", k |-> 0, x |-> e] : e \in ErrPayloads}
    \cup {[name |-> "remove_first", k |-> 0, x |-> 0]}
    \cup {[name |-> "insert", k |-> k, x |-> x] : k \in Keys, x \in Vals}
    \cup {[name |-> "remove_key", k |-> k, x |-> 0] : k \in Keys}
NoCallback == [name |-> "none", k |-> 0, x |-> 0]

RecvKind(f) == IF f.name \in {"insert", "remove_key"} THEN "map" ELSE "vec"
\* The type of the callback's return value.
RetType(f) ==
    CASE f.name = "push" -> "Unit"
      [] f.name = "remove_first" -> "Plain"
      [] f.name = "pop_ok_or" -> "Result"
      [] OTHER -> "Option"

Last(s) == s[Len(s)]
Front(s) == SubSeq(s, 1, Len(s) - 1)
Lookup(e, k) == IF \E p \in e : p[1] = k THEN Some((CHOOSE p \in e : p[1] = k)[2]) ELSE None
Without(e, k) == {p \in e : p[1] # k}

NoPanic == "none"
Returned(v, a) == [recv |-> v, ret |-> a, panics |-> FALSE, diag |-> NoPanic]
Panicked(v, d) == [recv |-> v, ret |-> NoTmp, panics |-> TRUE, diag |-> d]

\* What callback f does with exclusive-mutable access to receiver v: the state
\* it leaves the receiver in, and the value it returns or the panic it raises.
CallF(f, v) ==
    CASE f.name = "push" -> Returned(VecOf(Append(v.items, f.x)), Unit)
      [] f.name = "pop" ->
            IF v.items = <<>> THEN Returned(v, None)
            ELSE Returned(VecOf(Front(v.items)), Some(Last(v.items)))
      [] f.name = "pop_ok_or" ->
            IF v.items = <<>> THEN Returned(v, Err(f.x))
            ELSE Returned(VecOf(Front(v.items)), Ok(Last(v.items)))
      [] f.name = "remove_first" ->
            IF v.items = <<>> THEN Panicked(v, "removal index out of bounds")
            ELSE Returned(VecOf(Tail(v.items)), Plain(Head(v.items)))
      [] f.name = "insert" ->
            Returned(MapOf(Without(v.entries, f.k) \cup {<<f.k, f.x>>}), Lookup(v.entries, f.k))
      [] f.name = "remove_key" ->
            Returned(MapOf(Without(v.entries, f.k)), Lookup(v.entries, f.k))

\* ------------------------------------------------------------------ state
VARIABLES
    caller,     \* the value the calling code owns (Nothing once moved away)
    self,       \* the receiver inside the running apply* / quick_drop frame
    worker,     \* the value owned by the spawned thread's closure
    pc,         \* position of the calling thread
    tpc,        \* position of the spawned thread: "none", "pending", "released"
    op,         \* the method of the current (or last) call
    f,          \* its callback
    tmp,        \* the value the callback returned
    extracted,  \* what Unwrappable::unwrap made of it
    result,     \* what the call returned to the caller: <<Self>> or <<Self, A>>
    panic,      \* the payload of the panic raised on the calling thread
    drops,      \* the threads that ran the value's drop, in order
    entry,      \* history: the receiver as the current call received it
    events,     \* history: the steps of the current call, in order
    v0,         \* history: the value the chain started from
    chain,      \* history: the callbacks of the chain's calls, in program order
    log         \* history: the callbacks in the order they ran

vars == <<caller, self, worker, pc, tpc, op, f, tmp, extracted, result, panic,
          drops, entry, events, v0, chain, log>>

\* ------------------------------------------------------------------ Unwrappable
Value(x) == [aborts |-> FALSE, value |-> x, diag |-> NoPanic]
Abort(d) == [aborts |-> TRUE, value |-> 0, diag |-> d]
NotExtracted == [aborts |-> FALSE, value |-> 0, diag |-> "unset"]

\* Mutant: a recoverable default stands in for the panic on Err.
unwrap_result_or_default(s) ==
    IF s.tag = "Ok" THEN Value(s.val) ELSE Value(0)

\* impl Unwrappable<T> for Result<T, E>: Result::unwrap(s).
unwrap_result(s) ==
    IF s.tag = "Ok" THEN Value(s.val)
    ELSE Abort("called Result::unwrap() on an Err value")

\* Mutant: the variants are tested the wrong way round.
unwrap_option_inverted(s) ==
    IF s.tag = "None" THEN Value(s.val)
    ELSE Abort("called Option::unwrap() on a None value")

\* Mutant: a recoverable default stands in for the panic on None.
unwrap_option_or_default(s) ==
    IF s.tag = "Some" THEN Value(s.val) ELSE Value(0)

\* impl Unwrappable<T> for Option<T>: Option::unwrap(s).
unwrap_option(s) ==
    IF s.tag = "Some" THEN Value(s.val)
    ELSE Abort("called Option::unwrap() on a None value")

\* Unwrappable::unwrap, dispatched on the carrier's type.
unwrap(s) == IF s.tag \in {"Ok", "Err"} THEN unwrap_result(s) ELSE unwrap_option(s)

\* ------------------------------------------------------------------ Apply
\* Mutant: the pair is built the other way round.
apply_keep_result_swapped(s, t) == <<t, s>>

\* apply_keep's return expression: (self, tmp).
apply_keep_result(s, t) == <<s, t>>
\* Mutant: the receiver handed back is the one the call was given, as if the
\* callback had worked on a copy.
apply_result_stale(s, t) == <<entry>>

\* apply's return expression: self (the callback's value was dropped).
apply_result(s, t) == <<s>>
\* apply_unwrap's return expression: self (the extracted payload was dropped).
apply_unwrap_result(s, x) == <<s>>

\* ------------------------------------------------------------------ calls
Methods == {"apply", "apply_keep", "apply_unwrap"}

Init ==
    /\ caller \in Receivers
    /\ self = Nothing
    /\ worker = Nothing
    /\ pc = "idle"
    /\ tpc = "none"
    /\ op = "none"
    /\ f = NoCallback
    /\ tmp = NoTmp
    /\ extracted = NotExtracted
    /\ result = <<>>
    /\ panic = NoPanic
    /\ drops = <<>>
    /\ entry = Nothing
    /\ events = <<>>
    /\ v0 = caller
    /\ chain = <<>>
    /\ log = <<>>

\* The caller writes caller.m(g): the receiver is moved into the method's
\* `mut self`. The type system admits g only on a receiver of its type, and
\* apply_unwrap only with a callback returning an Unwrappable.
Call(m, g) ==
    /\ pc = "idle"
    /\ caller # Nothing
    /\ Len(chain) < MaxCalls
    /\ RecvKind(g) = caller.kind
    /\ m = "apply_unwrap" => RetType(g) \in {"Option", "Result"}
    /\ g.name = "push" => Len(caller.items) < MaxLen
    /\ self' = caller
    /\ caller' = Nothing
    /\ entry' = caller
    /\ op' = m
    /\ f' = g
    /\ tmp' = NoTmp
    /\ extracted' = NotExtracted
    /\ result' = <<>>
    /\ events' = <<>>
    /\ chain' = Append(chain, g)
    /\ pc' = "entered"
    /\ UNCHANGED <<worker, tpc, panic, drops, v0, log>>

\* Mutant: the callback is given a clone, and `self` stays as it was.
RunCallback_on_clone ==
    /\ pc = "entered"
    /\ op \in Methods
    /\ LET r == CallF(f, self) IN
        /\ self' = self
        /\ tmp' = r.ret
        /\ panic' = r.diag
        /\ pc' = IF r.panics THEN "unwinding" ELSE "ran"
    /\ events' = Append(events, "callback")
    /\ log' = Append(log, f)
    /\ UNCHANGED <<caller, worker, tpc, op, f, extracted, result, drops, entry, v0, chain>>

\* f(&mut self): the callback runs on the frame's own receiver. If it panics
\* the frame starts to unwind with the callback's payload.
RunCallback ==
    /\ pc = "entered"
    /\ op \in Methods
    /\ LET r == CallF(f, self) IN
        /\ self' = r.recv
        /\ tmp' = r.ret
        /\ panic' = r.diag
        /\ pc' = IF r.panics THEN "unwinding" ELSE "ran"
    /\ events' = Append(events, "callback")
    /\ log' = Append(log, f)
    /\ UNCHANGED <<caller, worker, tpc, op, f, extracted, result, drops, entry, v0, chain>>

\* The method returns: its value goes to the caller, who keeps the receiver
\* (the first component) for the next call of the chain.
ReturnToCaller(r) ==
    /\ result' = r
    /\ caller' = r[1]
    /\ self' = Nothing
    /\ events' = Append(events, "return")
    /\ pc' = "idle"
    /\ UNCHANGED <<worker, tpc, op, f, tmp, extracted, panic, drops, entry, v0, chain, log>>

\* apply: `self` after the callback's value was discarded.
apply_return ==
    /\ pc = "ran"
    /\ op = "apply"
    /\ ReturnToCaller(apply_result(self, tmp))

\* apply_keep: `(self, tmp)`.
apply_keep_return ==
    /\ pc = "ran"
    /\ op = "apply_keep"
    /\ ReturnToCaller(apply_keep_result(self, tmp))

\* apply_unwrap: Unwrappable::unwrap(f(&mut self)) on the callback's value;
\* a failure carrier raises the extraction's panic.
apply_unwrap_extract ==
    /\ pc = "ran"
    /\ op = "apply_unwrap"
    /\ LET u == unwrap(tmp) IN
        /\ extracted' = u
        /\ panic' = u.diag
        /\ pc' = IF u.aborts THEN "unwinding" ELSE "unwrapped"
    /\ events' = Append(events, "unwrap")
    /\ UNCHANGED <<caller, self, worker, tpc, op, f, tmp, result, drops, entry, v0, chain, log>>

\* apply_unwrap: `self`, after a successful extraction.
apply_unwrap_return ==
    /\ pc = "unwrapped"
    /\ op = "apply_unwrap"
    /\ ReturnToCaller(apply_unwrap_result(self, extracted))

\* Mutant: the unwinding frame forgets `self` instead of dropping it.
Unwind_forget ==
    /\ pc = "unwinding"
    /\ self' = Nothing
    /\ events' = Append(events, "unwind")
    /\ pc' = "aborted"
    /\ UNCHANGED <<caller, worker, tpc, op, f, tmp, extracted, result, panic, drops,
                   entry, v0, chain, log>>

\* A panic leaves the method's frame: the locals it owns are dropped on the
\* calling thread, and the panic goes on to the caller unchanged.
Unwind ==
    /\ pc = "unwinding"
    /\ self' = Nothing
    /\ drops' = IF self = Nothing THEN drops ELSE Append(drops, "caller")
    /\ events' = Append(events, "unwind")
    /\ pc' = "aborted"
    /\ UNCHANGED <<caller, worker, tpc, op, f, tmp, extracted, result, panic, entry, v0, chain, log>>

\* ------------------------------------------------------------------ QuickDrop
\* The caller writes caller.quick_drop(): the value is moved into `self`.
quick_drop_call ==
    /\ pc = "idle"
    /\ caller # Nothing
    /\ self' = caller
    /\ caller' = Nothing
    /\ entry' = caller
    /\ op' = "quick_drop"
    /\ f' = NoCallback
    /\ tmp' = NoTmp
    /\ extracted' = NotExtracted
    /\ result' = <<>>
    /\ events' = <<>>
    /\ pc' = "entered"
    /\ UNCHANGED <<worker, tpc, panic, drops, v0, chain, log>>

\* thread::spawn(move || drop(self)) succeeds: the closure, and `self` in it,
\* now belongs to the new thread; the JoinHandle is dropped, unjoined.
spawn_ok ==
    /\ pc = "entered"
    /\ op = "quick_drop"
    /\ worker' = self
    /\ self' = Nothing
    /\ tpc' = "pending"
    /\ events' = Append(events, "spawn")
    /\ pc' = "spawned"
    /\ UNCHANGED <<caller, op, f, tmp, extracted, result, panic, drops, entry, v0, chain, log>>

\* Mutant: the closure of a failed spawn is forgotten, not dropped.
spawn_fail_leak ==
    /\ pc = "entered"
    /\ op = "quick_drop"
    /\ self' = Nothing
    /\ panic' = "failed to spawn thread"
    /\ events' = Append(events, "spawn_failed")
    /\ pc' = "unwinding"
    /\ UNCHANGED <<caller, worker, tpc, op, f, tmp, extracted, result, drops, entry,
                   v0, chain, log>>

\* thread::spawn fails to create the thread: the closure it was given is
\* dropped where it is, on the calling thread, and thread::spawn panics.
spawn_fail ==
    /\ pc = "entered"
    /\ op = "quick_drop"
    /\ self' = Nothing
    /\ drops' = Append(drops, "caller")
    /\ panic' = "failed to spawn thread"
    /\ events' = Append(events, "spawn_failed")
    /\ pc' = "unwinding"
    /\ UNCHANGED <<caller, worker, tpc, op, f, tmp, extracted, result, entry, v0, chain, log>>

\* Mutant: quick_drop joins the thread it spawned before it returns.
quick_drop_return_joined ==
    /\ pc = "spawned"
    /\ tpc = "released"
    /\ events' = Append(events, "return")
    /\ pc' = "idle"
    /\ UNCHANGED <<caller, self, worker, tpc, op, f, tmp, extracted, result, panic,
                   drops, entry, v0, chain, log>>

\* quick_drop returns (), whatever the spawned thread has done so far.
quick_drop_return ==
    /\ pc = "spawned"
    /\ events' = Append(events, "return")
    /\ pc' = "idle"
    /\ UNCHANGED <<caller, self, worker, tpc, op, f, tmp, extracted, result, panic,
                   drops, entry, v0, chain, log>>

\* Mutant: the closure forgets the value instead of dropping it.
release_forget ==
    /\ tpc = "pending"
    /\ worker' = Nothing
    /\ tpc' = "released"
    /\ UNCHANGED <<caller, self, pc, op, f, tmp, extracted, result, panic, drops,
                   entry, events, v0, chain, log>>

\* The spawned thread runs its closure: drop(self).
release ==
    /\ tpc = "pending"
    /\ worker' = Nothing
    /\ drops' = Append(drops, "spawned")
    /\ tpc' = "released"
    /\ UNCHANGED <<caller, self, pc, op, f, tmp, extracted, result, panic, entry,
                   events, v0, chain, log>>

\* ------------------------------------------------------------------ specification
CallAny == \E m \in Methods, g \in Callbacks : Call(m, g)

Next ==
    \/ CallAny
    \/ RunCallback
    \/ apply_return
    \/ apply_keep_return
    \/ apply_unwrap_extract
    \/ apply_unwrap_return
    \/ Unwind
    \/ quick_drop_call
    \/ spawn_ok
    \/ spawn_fail
    \/ quick_drop_return
    \/ release

Spec == Init /\ [][Next]_vars

\* A thread that was spawned is scheduled: its closure eventually runs.
FairSpec == Spec /\ WF_vars(release)

\* ------------------------------------------------------------------ properties
Count(seq, e) == Cardinality({i \in 1..Len(seq) : seq[i] = e})
IsSuccess(c) == c.tag \in {"Some", "Ok"}
IsFailure(c) == c.tag \in {"None", "Err"}
\* The current apply* call has returned to the caller.
Completed(m) == op = m /\ pc = "idle"
\* What the current call's callback does to the receiver the call was given.
Outcome == CallF(f, entry)

\* Running callbacks fs in order on v, in place.
RECURSIVE InPlace(_, _)
InPlace(v, fs) == IF fs = <<>> THEN v ELSE InPlace(CallF(Head(fs), v).recv, Tail(fs))

\* C1: v.apply_keep(f) runs f exactly once and returns the pair (receiver as f
\* left it, the value f returned), in that order and unaltered.
C1_ApplyKeepPair ==
    Completed("apply_keep") =>
        /\ Len(result) = 2
        /\ result[1] = Outcome.recv
        /\ result[2] = Outcome.ret
        /\ Count(events, "callback") = 1

C1_Witness ==
    /\ Completed("apply_keep")
    /\ entry = MapOf({<<1, 1>>})
    /\ f = [name |-> "insert", k |-> 1, x |-> 2]
    /\ result = <<MapOf({<<1, 2>>}), Some(1)>>

\* C2: v.apply(f) runs f exactly once and returns the receiver as f left it;
\* the value f returned is no part of what is returned.
C2_ApplyReturnsReceiver ==
    Completed("apply") =>
        /\ result = <<Outcome.recv>>
        /\ caller = Outcome.recv
        /\ Count(events, "callback") = 1

C2_Witness ==
    /\ Completed("apply")
    /\ entry = VecOf(<<1>>)
    /\ f.name = "pop"
    /\ tmp = Some(1)
    /\ result = <<VecOf(<<>>)>>

\* C3: the callbacks of a chain run in program order, each on the state the
\* previous one left and each before its own call returns, so the receiver the
\* chain yields is the one obtained by running the callbacks in place.
C3_ChainOrder ==
    /\ Len(log) <= Len(chain)
    /\ log = SubSeq(chain, 1, Len(log))
    /\ (pc = "entered" /\ op \in Methods) =>
            /\ Len(log) = Len(chain) - 1
            /\ self = InPlace(v0, log)
    /\ (pc = "idle" /\ op \in Methods) =>
            /\ log = chain
            /\ caller = InPlace(v0, chain)

C3_Witness ==
    /\ Completed("apply")
    /\ v0 = MapOf({})
    /\ chain = << [name |-> "insert", k |-> 1, x |-> 1],
                  [name |-> "insert", k |-> 2, x |-> 1],
                  [name |-> "insert", k |-> 1, x |-> 2] >>
    /\ caller = MapOf({<<1, 2>>, <<2, 1>>})

\* C4: when the callback returns a success carrier, apply_unwrap does not
\* abort and returns the receiver as the callback left it, as apply does; the
\* extracted payload is no part of what is returned.
C4_UnwrapSuccess ==
    (op = "apply_unwrap" /\ IsSuccess(tmp)) =>
        /\ pc \in {"ran", "unwrapped", "idle"}
        /\ panic = NoPanic
        /\ pc = "idle" =>
                /\ result = <<Outcome.recv>>
                /\ caller = Outcome.recv

C4_Witness ==
    /\ Completed("apply_unwrap")
    /\ entry = MapOf({<<1, 1>>})
    /\ f = [name |-> "insert", k |-> 1, x |-> 2]
    /\ tmp = Some(1)
    /\ result = <<MapOf({<<1, 2>>})>>

\* C5: when the callback returns a failure carrier, apply_unwrap never
\* returns: after one callback and then one extraction the call aborts, and
\* the receiver is dropped by the unwinding, not leaked.
C5_UnwrapFailure ==
    (op = "apply_unwrap" /\ IsFailure(tmp)) =>
        /\ pc \in {"ran", "unwinding", "aborted"}
        /\ result = <<>>
        /\ caller = Nothing
        /\ pc = "ran" => events = <<"callback">>
        /\ pc = "unwinding" => events = <<"callback", "unwrap">> /\ self = Outcome.recv
        /\ pc = "aborted" =>
                /\ events = <<"callback", "unwrap", "unwind">>
                /\ self = Nothing
                /\ drops = <<"caller">>

C5_Witness ==
    /\ op = "apply_unwrap"
    /\ pc = "aborted"
    /\ entry = VecOf(<<>>)
    /\ f.name = "pop"
    /\ tmp = None
    /\ drops = <<"caller">>

\* C6: Unwrappable::unwrap returns exactly the contained value of Ok(v) and
\* Some(v), and on Err(e) and None it panics: no value is returned and the
\* call it was made from does not go on.
C6_Unwrap ==
    extracted # NotExtracted =>
        /\ IsSuccess(tmp) =>
                /\ extracted = [aborts |-> FALSE, value |-> tmp.val, diag |-> NoPanic]
                /\ pc \in {"unwrapped", "idle"}
        /\ IsFailure(tmp) =>
                /\ extracted.aborts
                /\ pc \in {"unwinding", "aborted"}
                /\ panic = extracted.diag
                /\ panic # NoPanic
                /\ result = <<>>
        /\ IsSuccess(tmp) \/ IsFailure(tmp)

C6_Witness ==
    /\ tmp = Err(1)
    /\ extracted.aborts
    /\ pc = "aborted"

\* The value is in exactly one place, or was dropped exactly once.
Places == Cardinality({i \in 1..3 : <<caller, self, worker>>[i] # Nothing})
SpawnFailed == Count(events, "spawn_failed") > 0

\* C7 as stated: no value passed to quick_drop is ever dropped by the calling
\* thread.
C7_NeverOnCaller ==
    op = "quick_drop" => Count(drops, "caller") = 0

\* C7: when the spawn succeeds the value is dropped by the spawned thread
\* only, and quick_drop returns without waiting for that drop: once the thread
\* is spawned the return and the drop can each come first. The calling thread
\* drops the value only when the spawn failed and the call panics.
C7_DropOffThread ==
    op = "quick_drop" =>
        /\ tpc # "none" => drops \in {<<>>, <<"spawned">>}
        /\ Count(drops, "caller") > 0 =>
                /\ SpawnFailed
                /\ tpc = "none"
                /\ pc \in {"unwinding", "aborted"}
        /\ pc = "idle" => tpc \in {"pending", "released"}
        /\ (pc = "spawned" /\ tpc = "pending") =>
                /\ ENABLED quick_drop_return
                /\ ENABLED release

C7_Witness ==
    /\ op = "quick_drop"
    /\ pc = "idle"
    /\ tpc = "pending"
    /\ worker = entry
    /\ drops = <<>>

C9_SpawnFailure ==
    op = "quick_drop" =>
        /\ SpawnFailed =>
                /\ pc \in {"unwinding", "aborted"}
                /\ panic = "failed to spawn thread"
                /\ drops = <<"caller">>
                /\ tpc = "none"
        /\ pc = "idle" => (worker = entry /\ drops = <<>>) \/ (worker = Nothing /\ drops = <<"spawned">>)
        /\ Places + Len(drops) = 1

C9_Witness ==
    /\ op = "quick_drop"
    /\ SpawnFailed
    /\ pc = "aborted"
    /\ drops = <<"caller">>
    /\ panic = "failed to spawn thread"

\* C10: once given to quick_drop the value never comes back to the caller; on
\* the spawned thread it goes from pending to released and stays there; after
\* a successful spawn it is dropped at most once, and, the spawned thread
\* being scheduled, it is eventually dropped, by that thread.
C10_Lifecycle ==
    /\ [][(op = "quick_drop") => (op' = "quick_drop" /\ caller' = Nothing)]_vars
    /\ [][(tpc = "pending" => tpc' \in {"pending", "released"})
            /\ (tpc = "released" => tpc' = "released")]_vars
    /\ [](tpc = "pending" => (drops = <<>> /\ worker = entry))
    /\ [](tpc = "released" => (drops = <<"spawned">> /\ worker = Nothing))
    /\ (tpc = "pending") ~> (tpc = "released" /\ drops = <<"spawned">>)

C10_Witness ==
    /\ op = "quick_drop"
    /\ pc = "idle"
    /\ tpc = "released"
    /\ drops = <<"spawned">>
    /\ caller = Nothing

====
